---- MODULE Spec2Model ----
(***************************************************************************)
(* Model of the astk sun and sky light-source library:                     *)
(*   openalea/astk/meteorology/sky_luminance.py  (luminance models and the *)
(*       sky_luminance builder)                                            *)
(*   alinea/astk/sun_and_sky.py  (turtle discretisation, sky_sources,      *)
(*       sun_fraction, sun_sky_sources)                                    *)
(*                                                                         *)
(* Floating point numbers are modelled as fixed-point integers in units of *)
(* 1/FxOne ("Fx" values).  numpy's exp, sin, cos, arccos and power are     *)
(* computed by series / bisection in that arithmetic.  A non-finite float  *)
(* (inf or nan, the outcome of a numpy division by zero) is the value NaN. *)
(* A Python exception is a record [kind |-> "raise", exc |-> ..., at |-> ].*)
(***************************************************************************)
EXTENDS Integers, Sequences, FiniteSets, TLC

VARIABLES pc, fn, args, ret, grid, row_i, sun, sky, soc

vars == <<pc, fn, args, ret, grid, row_i, sun, sky, soc>>

----------------------------------------------------------------------------
(* Fixed-point arithmetic *)

FxOne == 10 ^ 4

NaN == -(2 * 10 ^ 9)

Abs(x) == IF x < 0 THEN -x ELSE x

Fx(n) == n * FxOne

IsNaN(x) == x = NaN

\* the sign of a product or quotient
SameSign(a, b) == IF (a < 0) = (b < 0) THEN 1 ELSE -1

FxMulPos(a, b) ==
    (a \div FxOne) * (b \div FxOne) * FxOne + (a \div FxOne) * (b % FxOne)
        + (a % FxOne) * (b \div FxOne) + ((a % FxOne) * (b % FxOne)) \div FxOne

FxMul(a, b) ==
    IF IsNaN(a) \/ IsNaN(b) THEN NaN ELSE SameSign(a, b) * FxMulPos(Abs(a), Abs(b))

RECURSIVE FxDigits(_, _, _)
FxDigits(r, b, k) ==
    IF k = 0 THEN 0
    ELSE FxDigits((r * 10) % b, b, k - 1) + ((r * 10) \div b) * (10 ^ (k - 1))

FxDivPos(a, b) == (a \div b) * FxOne + FxDigits(a % b, b, 4)

\* numpy true division: a zero divisor gives inf or nan, not an exception
FxDiv(a, b) ==
    IF IsNaN(a) \/ IsNaN(b) \/ b = 0 THEN NaN
    ELSE SameSign(a, b) * FxDivPos(Abs(a), Abs(b))

FxAdd(a, b) == IF IsNaN(a) \/ IsNaN(b) THEN NaN ELSE a + b

FxSub(a, b) == IF IsNaN(a) \/ IsNaN(b) THEN NaN ELSE a - b

\* a > b on floats: any comparison with a non-finite operand is False here
FxGt(a, b) == IF IsNaN(a) \/ IsNaN(b) THEN FALSE ELSE a > b

FxPi == 31416

FxHalfPi == FxPi \div 2

\* numpy.radians of an angle given in hundredths of a degree
radians(cdeg) == (cdeg * FxPi) \div 18000

RECURSIVE ExpSeries(_, _, _, _)
ExpSeries(x, term, k, n) ==
    IF k > n THEN 0
    ELSE term + ExpSeries(x, FxMul(term, x) \div k, k + 1, n)

\* e^n for an integer n in 0..12; larger arguments are out of the model's range
RECURSIVE ExpInt(_)
ExpInt(n) ==
    CASE n = 0 -> 10000
      [] n = 1 -> 27183
      [] n = 2 -> 73891
      [] n = 3 -> 200855
      [] n = 4 -> 545982
      [] n = 5 -> 1484132
      [] n = 6 -> 4034288
      [] n \in 7..12 -> FxMul(4034288, ExpInt(n - 6))
      [] OTHER -> NaN

\* e^x for x >= 0: e^floor(x) times the series of the fractional part
ExpPos(x) == FxMul(ExpInt(x \div FxOne), ExpSeries(x % FxOne, FxOne, 1, 8))

\* e^x from p = e^|x|
ExpSigned(x, p) == IF x < 0 THEN FxDiv(FxOne, p) ELSE p

\* numpy.exp, for an Fx argument
Exp(x) ==
    IF IsNaN(x) THEN NaN
    ELSE IF x < -Fx(9) THEN 0
    ELSE ExpSigned(x, ExpPos(Abs(x)))

RECURSIVE LnSearch(_, _, _)
LnSearch(x, lo, hi) ==
    IF hi - lo <= 1 THEN lo
    ELSE IF Exp((lo + hi) \div 2) <= x
         THEN LnSearch(x, (lo + hi) \div 2, hi)
         ELSE LnSearch(x, lo, (lo + hi) \div 2)

\* natural logarithm of a positive Fx value, by bisection on Exp
Ln(x) == LnSearch(x, -Fx(9), Fx(6))

\* numpy.power(x, p): nan for a negative base with a fractional exponent
Power(x, p) ==
    IF IsNaN(x) \/ IsNaN(p) THEN NaN
    ELSE IF p = Fx(2) THEN FxMul(x, x)
    ELSE IF x < 0 THEN NaN
    ELSE IF x = 0 THEN 0
    ELSE Exp(FxMul(p, Ln(x)))

RECURSIVE SinSeries(_, _, _, _)
SinSeries(x2, term, k, n) ==
    IF k > n THEN 0
    ELSE term + SinSeries(x2, -(FxMul(term, x2) \div ((2 * k) * (2 * k + 1))), k + 1, n)

\* a sine or cosine lies in [-1, 1]
Clip1(s) == IF s > FxOne THEN FxOne ELSE IF s < -FxOne THEN -FxOne ELSE s

\* sine of an Fx angle in [-pi/2, pi/2]
SinSmall(x) == Clip1(SinSeries(FxMul(x, x), x, 1, 6))

\* an angle of [-2 pi, 2 pi] brought into [0, 2 pi]
SinWrap(x) == IF x < 0 THEN x + 2 * FxPi ELSE IF x > 2 * FxPi THEN x - 2 * FxPi ELSE x

\* the angle of [-pi/2, pi/2] with the sine of z, z in [0, 2 pi]
SinReduce(z) ==
    IF z <= FxHalfPi THEN z
    ELSE IF z <= 3 * FxHalfPi THEN FxPi - z
    ELSE z - 2 * FxPi

\* numpy.sin of an Fx angle in radians, within [-2 pi, 2 pi]
Sin(x) == IF IsNaN(x) THEN NaN ELSE SinSmall(SinReduce(SinWrap(x)))

\* numpy.cos of an Fx angle in radians
Cos(x) == IF IsNaN(x) THEN NaN ELSE Sin(FxHalfPi - Abs(x))

RECURSIVE ArcCosSearch(_, _, _)
ArcCosSearch(c, lo, hi) ==
    IF hi - lo <= 1 THEN lo
    ELSE IF Cos((lo + hi) \div 2) >= c
         THEN ArcCosSearch(c, (lo + hi) \div 2, hi)
         ELSE ArcCosSearch(c, lo, (lo + hi) \div 2)

\* numpy.arccos of an Fx value in [-1, 1], by bisection on Cos
ArcCos(c) == IF c >= FxOne THEN 0 ELSE ArcCosSearch(c, 0, FxPi + 1)

\* numpy.degrees, result in hundredths of a degree
degrees(x) == (x * 18000) \div FxPi

----------------------------------------------------------------------------
(* sky_luminance.py: all_weather_abcde (Perez et al. 1993) *)

\* clearness bin edges, Fx
bins == <<10000, 10650, 12300, 15000, 19500, 28000, 45000, 62000>>

\* the Perez coefficient table, Fx, one column per clearness bin
a1_tab == <<13525, -12219, -11000, -5484, -6000, -10156, -10000, -10500>>

a2_tab == <<-2576, -7730, -2215, -6654, -3566, -3670, 211, 289>>

a3_tab == <<-2690, 14148, 8952, -2672, -25000, 10078, 5025, 4260>>

a4_tab == <<-14366, 11016, 156, 7117, 23250, 14051, -5119, 3590>>

b1_tab == <<-7670, -2054, 2782, 7234, 2937, 2875, -3000, -3250>>

b2_tab == <<7, 367, -1812, -6219, 496, -5328, 1922, 1156>>

b3_tab == <<12734, -39128, -45000, -56812, -56812, -38500, 7023, 7781>>

b4_tab == <<-1233, 9156, 11766, 26297, 18415, 33750, -16317, 25>>

c1_tab == <<28000, 69750, 247219, 333389, 210000, 140000, 190000, 310625>>

c2_tab == <<6004, 1774, -130812, -183000, -47656, -9999, -50000, -145000>>

c3_tab == <<12375, 64477, -377000, -622500, -215906, -71406, 12438, -461148>>

c4_tab == <<10000, -1239, 348438, 520781, 72492, 75469, -19094, 553750>>

d1_tab == <<18734, -15798, -50000, -35000, -35000, -34000, -40000, -72312>>

d2_tab == <<6297, -5081, 15218, 16, -1554, -1078, 250, 4050>>

d3_tab == <<9738, -17812, 39229, 11477, 14062, -10750, 3844, 133500>>

d4_tab == <<2809, 1080, -26204, 1062, 3988, 15702, 2656, 6234>>

e1_tab == <<356, 2624, -156, 4659, 32, -672, 10468, 15000>>

e2_tab == <<-1246, 672, 1597, -3296, 766, 4016, -3788, -6426>>

e3_tab == <<-5718, -2190, 4199, -876, -656, 3017, -24517, 18564>>

e4_tab == <<9938, -4285, -5562, -329, -1294, -4844, 14656, 5636>>

\* numpy.searchsorted(a, v), side='left': the number of entries of the sorted
\* sequence a that are strictly below v
searchsorted(a, v) == Cardinality({i \in 1..Len(a) : a[i] < v})

Max(a, b) == IF a >= b THEN a ELSE b

Min(a, b) == IF a <= b THEN a ELSE b

\* variant: searchsorted with side='right'
abcde_index_side_right(clearness) ==
    Max(0, Cardinality({i \in 1..Len(bins) : bins[i] <= clearness}) - 1)

\* index = max(0, numpy.searchsorted(bins, clearness) - 1), a 0-based row
abcde_index(clearness) == Max(0, searchsorted(bins, clearness) - 1)

\* _awfit(p1, p2, p3, p4, zen, br)[index], index 0-based
awfit(p1, p2, p3, p4, zen, br, index) ==
    FxAdd(FxAdd(p1[index + 1], FxMul(p2[index + 1], zen)),
          FxMul(br, FxAdd(p3[index + 1], FxMul(p4[index + 1], zen))))

\* the alternate fit of c for the lowest clearness bin
c_expfit(z, brightness) ==
    FxSub(Exp(Power(FxMul(brightness, FxAdd(c1_tab[1], FxMul(c2_tab[1], z))), c3_tab[1])),
          c4_tab[1])

\* the alternate fit of d for the lowest clearness bin
d_expfit(z, brightness) ==
    FxAdd(FxSub(d3_tab[1], Exp(FxMul(brightness, FxAdd(d1_tab[1], FxMul(d2_tab[1], z))))),
          FxMul(d4_tab[1], brightness))

\* variant: a strict comparison
lowest_bin_strict(clearness) == clearness < 10650

\* the clearness test that switches c and d to the alternate fit
lowest_bin(clearness) == clearness <= 10650

\* lines 156-160: the linear fit of the five coefficients for a table row
abcde_fits(z, brightness, index) ==
    <<awfit(a1_tab, a2_tab, a3_tab, a4_tab, z, brightness, index),
      awfit(b1_tab, b2_tab, b3_tab, b4_tab, z, brightness, index),
      awfit(c1_tab, c2_tab, c3_tab, c4_tab, z, brightness, index),
      awfit(d1_tab, d2_tab, d3_tab, d4_tab, z, brightness, index),
      awfit(e1_tab, e2_tab, e3_tab, e4_tab, z, brightness, index)>>

\* lines 162-168: c and d replaced by the alternate fit when low holds
abcde_override(low, fits, c, d) ==
    IF low THEN <<fits[1], fits[2], c, d, fits[5]>> ELSE fits

\* all_weather_abcde(sun_zenith, clearness, brightness): sun_zenith in
\* hundredths of a degree, clearness and brightness Fx; returns <<a, b, c, d, e>>
all_weather_abcde(sun_zenith, clearness, brightness) ==
    abcde_override(lowest_bin(clearness),
                   abcde_fits(radians(sun_zenith), brightness, abcde_index(clearness)),
                   c_expfit(radians(sun_zenith), brightness),
                   d_expfit(radians(sun_zenith), brightness))

----------------------------------------------------------------------------
(* sun_and_sky.py: sky_discretisation *)

Rep(x, n) == [i \in 1..n |-> x]

az1 == <<0, 7200, 14400, 21600, 28800>>

az2 == <<3600, 10800, 18000, 25200, 32400>>

\* hierarchical turtle directions, hundredths of a degree
elevations_h ==
    <<9000>> \o Rep(2657, 5) \o Rep(5262, 5) \o Rep(1081, 5) \o Rep(6916, 5)
        \o Rep(4741, 5) \o Rep(3108, 10) \o Rep(923, 10)

azimuths_h ==
    <<18000>> \o az1 \o az2 \o az2 \o az1 \o az1
        \o <<2327, 4873, 9527, 12073, 16727, 19273, 23927, 26473, 31127, 33673>>
        \o <<1223, 5977, 8423, 13177, 15623, 20377, 22823, 27577, 30023, 34777>>

turtle_cardinalities == <<1, 6, 16, 46>>

\* variant: searchsorted with side='right', the index kept in range
nb_sect_side_right(turtle_sectors) ==
    turtle_cardinalities[Min(4, Cardinality({i \in 1..4 :
        turtle_cardinalities[i] <= Min(46, turtle_sectors)}) + 1)]

\* nb_sect = [1, 6, 16, 46][searchsorted([1, 6, 16, 46], min(46, turtle_sectors))]
nb_sect(turtle_sectors) ==
    turtle_cardinalities[searchsorted(turtle_cardinalities, Min(46, turtle_sectors)) + 1]

\* variant: the fraction of the full 46-sector turtle for every cardinality
sky_discretisation_46(turtle_sectors) ==
    LET n == nb_sect(turtle_sectors)
    IN  [elevation |-> SubSeq(elevations_h, 1, n),
         azimuth |-> SubSeq(azimuths_h, 1, n),
         fraction |-> Rep(FxDiv(FxOne, Fx(46)), n)]

\* elevations_h[:n], azimuths_h[:n], [1. / n] * n
sky_discretisation(turtle_sectors) ==
    LET n == nb_sect(turtle_sectors)
    IN  [elevation |-> SubSeq(elevations_h, 1, n),
         azimuth |-> SubSeq(azimuths_h, 1, n),
         fraction |-> Rep(FxDiv(FxOne, Fx(n)), n)]

----------------------------------------------------------------------------
(* sky_irradiance.py collaborators used by the luminance code *)

\* horizontal_irradiance(luminance, elevation) = luminance * sin(elevation)
horizontal_irradiance(luminance, elevation) == FxMul(luminance, Sin(radians(elevation)))

\* directional_luminance(hi, elevation) = hi / sin(elevation)
directional_luminance(hi, elevation) == FxDiv(hi, Sin(radians(elevation)))

\* Perez clearness: ((dhi + dni) / dhi + 1.041 z^3) / (1 + 1.041 z^3)
all_weather_sky_clearness(dni, dhi, zenith) ==
    LET z == radians(zenith)
        kz3 == FxMul(10410, FxMul(z, FxMul(z, z)))
    IN  FxDiv(FxAdd(FxDiv(FxAdd(dhi, dni), dhi), kz3), FxAdd(FxOne, kz3))

\* Perez brightness: dhi * air mass / extraterrestrial irradiance (1367 W.m-2)
all_weather_sky_brightness(index, dhi, zenith) ==
    FxDiv(FxDiv(dhi, Cos(radians(zenith))), Fx(1367))

\* f_clear_sky(epsilon) = (epsilon - 1) / (epsilon_clear - 1) clipped to [0, 1],
\* epsilon_clear = 6.2
f_clear_sky(epsilon) ==
    IF IsNaN(epsilon) THEN NaN
    ELSE Max(0, Min(FxOne, FxDiv(epsilon - FxOne, 52000)))

----------------------------------------------------------------------------
(* sky_luminance.py: luminance models.  A grid is a sequence of cells      *)
(* [az |-> az_c, z |-> z_c, w |-> w_c], angles in hundredths of a degree.  *)

Cells(g) == 1..Len(g)

\* the numpy array with the entries f[1], ..., f[n], every entry computed once
RECURSIVE ArrRange(_, _, _)
ArrRange(f, lo, hi) ==
    IF lo > hi THEN <<>>
    ELSE IF lo = hi THEN <<f[lo]>>
    ELSE ArrRange(f, lo, (lo + hi) \div 2) \o ArrRange(f, (lo + hi) \div 2 + 1, hi)

Arr(f, n) == ArrRange(f, 1, n)

RECURSIVE SumRange(_, _, _)
SumRange(f, lo, hi) ==
    IF lo > hi THEN 0
    ELSE IF lo = hi THEN f[lo]
    ELSE FxAdd(SumRange(f, lo, (lo + hi) \div 2), SumRange(f, (lo + hi) \div 2 + 1, hi))

\* the sum of the first n entries of an array
SumSeq(f, n) == SumRange(f, 1, n)

\* numpy array .sum() over the cells of a set
RECURSIVE SumOver(_, _)
SumOver(f, S) ==
    IF S = {} THEN 0
    ELSE FxAdd(f[CHOOSE x \in S : TRUE], SumOver(f, S \ {CHOOSE x \in S : TRUE}))

\* a / k, entry by entry
Divided(a, n, k) == Arr([i \in 1..n |-> FxDiv(a[i], k)], n)

\* a * k, entry by entry
Scaled(a, n, k) == Arr([i \in 1..n |-> FxMul(a[i], k)], n)

\* sky_hi(grid, luminance) = horizontal_irradiance(luminance, 90 - sky_zenith).sum()
sky_hi(g, luminance) ==
    SumOver([c \in Cells(g) |-> horizontal_irradiance(luminance[c], 9000 - g[c].z)], Cells(g))

\* _f(z) of cie_luminance_gradation
gradation_f(z, a, b) ==
    FxAdd(FxOne, IF z = 9000 THEN 0 ELSE FxMul(a, Exp(FxDiv(b, Cos(radians(z))))))

cie_luminance_gradation(z, a, b) == FxDiv(gradation_f(z, a, b), gradation_f(0, a, b))

\* _f(k) of cie_scattering_indicatrix
indicatrix_f(k, c, d, e) ==
    FxAdd(FxAdd(FxOne, FxMul(c, FxSub(Exp(FxMul(d, radians(k))), Exp(FxMul(d, FxHalfPi))))),
          FxMul(e, Power(Cos(radians(k)), Fx(2))))

cie_scattering_indicatrix(ksi, ksi_sun, c, d, e) ==
    FxDiv(indicatrix_f(ksi, c, d, e), indicatrix_f(ksi_sun, c, d, e))

\* the unit vector of polar angle theta and azimuth phi, radians
unit_vector(sin_theta, cos_theta, sin_phi, cos_phi) ==
    <<FxMul(sin_theta, cos_phi), FxMul(sin_theta, sin_phi), cos_theta>>

\* _cartesian(zenith, azimuth) of ksi_grid
cartesian(zenith, azimuth) ==
    unit_vector(Sin(radians(zenith)), Cos(radians(zenith)),
                Sin(radians(azimuth)), Cos(radians(azimuth)))

RECURSIVE SqrtSearch(_, _, _)
SqrtSearch(x, lo, hi) ==
    IF hi - lo <= 1 THEN lo
    ELSE IF FxMul((lo + hi) \div 2, (lo + hi) \div 2) <= x
         THEN SqrtSearch(x, (lo + hi) \div 2, hi)
         ELSE SqrtSearch(x, lo, (lo + hi) \div 2)

\* numpy.dot of two 3-vectors
dot(v1, v2) == FxMul(v1[1], v2[1]) + FxMul(v1[2], v2[2]) + FxMul(v1[3], v2[3])

\* numpy.linalg.norm of a 3-vector
norm(v) == SqrtSearch(dot(v, v), 0, 4 * FxOne)

\* _acute(v1, v2) of ksi_grid, in hundredths of a degree
acute(v1, v2) ==
    degrees(ArcCos(Max(-FxOne, Min(FxOne, FxDiv(dot(v1, v2), FxMul(norm(v1), norm(v2)))))))

\* the angle between each cell and the direction v_sun
ksi_to(g, v_sun) == Arr([c \in Cells(g) |-> acute(cartesian(g[c].z, g[c].az), v_sun)], Len(g))

\* ksi_grid(grid, sun_zenith, sun_azimuth): angle between each cell and the sun
ksi_grid(g, sun_zenith, sun_azimuth) == ksi_to(g, cartesian(sun_zenith, sun_azimuth))

SkyTypesCie == {"soc", "uoc", "clear_sky"}

ValueError(line) == [kind |-> "raise", exc |-> "ValueError", at |-> line]

Return(v) == [kind |-> "return", value |-> v]

\* the (a, b) coefficients cie_relative_luminance picks for a sky type
cie_ab(type) ==
    CASE type = "soc" -> <<Fx(4), -7000>>
      [] type = "uoc" -> <<0, -Fx(1)>>
      [] type = "clear_sky" -> <<-Fx(1), -3200>>

TypeError(line) == [kind |-> "raise", exc |-> "TypeError", at |-> line]

\* an optional argument: None, or a value
None == [none |-> TRUE]

Some(v) == [none |-> FALSE, v |-> v]

\* the zenith angles cie_relative_luminance works on: those of the grid when a
\* grid is given, sky_zenith otherwise
cie_zenith(sky_zenith, grid_opt) ==
    IF ~grid_opt.none
    THEN Arr([c \in Cells(grid_opt.v) |-> grid_opt.v[c].z], Len(grid_opt.v))
    ELSE sky_zenith.v

\* lines 95-104: gradation, times the indicatrix for a clear sky
cie_luminance(zen, ab, ksi, sun_zenith, type) ==
    Arr([c \in 1..Len(zen) |->
            FxMul(cie_luminance_gradation(zen[c], ab[1], ab[2]),
                  IF type = "clear_sky"
                  THEN cie_scattering_indicatrix(ksi[c], sun_zenith, Fx(10), -Fx(3), 4500)
                  ELSE FxOne)], Len(zen))

\* cie_relative_luminance(sky_zenith, grid, sun_zenith, sun_azimuth, type): the
\* luminance array, or the exception raised.  sky_zenith and grid are optional;
\* ksi_grid unpacks the grid, a TypeError when the grid is None
cie_relative_luminance(sky_zenith, grid_opt, sun_zenith, sun_azimuth, type) ==
    IF sky_zenith.none /\ grid_opt.none THEN ValueError(79)
    ELSE IF type \notin SkyTypesCie THEN ValueError(93)
    ELSE IF type = "clear_sky" /\ grid_opt.none THEN TypeError(188)
    ELSE Return(cie_luminance(cie_zenith(sky_zenith, grid_opt), cie_ab(type),
                              ksi_grid(grid_opt.v, sun_zenith, sun_azimuth),
                              sun_zenith, type))

\* lines 215-218: gradation times indicatrix with the all-weather coefficients
all_weather_luminance(g, ksi, sun_zenith, abcde) ==
    Arr([c \in Cells(g) |->
            FxMul(cie_luminance_gradation(g[c].z, abcde[1], abcde[2]),
                  cie_scattering_indicatrix(ksi[c], sun_zenith, abcde[3], abcde[4], abcde[5]))],
        Len(g))

\* all_weather_relative_luminance(grid, sun_zenith, sun_azimuth, clearness, brightness)
all_weather_relative_luminance(g, sun_zenith, sun_azimuth, clearness, brightness) ==
    all_weather_luminance(g, ksi_grid(g, sun_zenith, sun_azimuth), sun_zenith,
                          all_weather_abcde(sun_zenith, clearness, brightness))

----------------------------------------------------------------------------
(* Inputs *)

MaxRows == 2

\* a row of the sky_irradiance table: irradiances Fx (W.m-2), angles in
\* hundredths of a degree
Row(index, ghi, dhi, dni, zenith, azimuth, ppfd) ==
    [Index |-> index, ghi |-> ghi, dhi |-> dhi, dni |-> dni,
     zenith |-> zenith, azimuth |-> azimuth, ppfd |-> ppfd]

\* an overcast hour; a clear hour with the sun on a grid cell; a clear hour
\* with the sun between cells; a hazy hour whose sun, on a grid cell, is no
\* brighter than the sky behind it (as bright as the overcast sky there)
RowSet ==
    {Row(1, Fx(200), Fx(200), 0, 6000, 18000, Fx(400)),
     Row(2, Fx(500), Fx(100), Fx(800), 6000, 18000, Fx(1000)),
     Row(3, Fx(446), Fx(100), Fx(400), 3000, 9000, Fx(900)),
     Row(4, 3933750, Fx(300), 1867500, 6000, 18000, Fx(600))}

RECURSIVE SeqsUpTo(_, _)
SeqsUpTo(S, n) ==
    IF n = 0 THEN {<<>>}
    ELSE LET shorter == SeqsUpTo(S, n - 1)
         IN  shorter \cup {Append(q, x) : q \in {t \in shorter : Len(t) = n - 1}, x \in S}

NoTable == [none |-> TRUE, rows |-> <<>>]

Table(rows) == [none |-> FALSE, rows |-> rows]

\* sky_irradiance argument: None or a data frame of 0..MaxRows rows
Tables == {NoTable} \cup {Table(q) : q \in SeqsUpTo(RowSet, MaxRows)}

SkyTypes == {"soc", "uoc", "clear_sky", "sun_soc", "blended", "all_weather", "foo"}

Scales == {"None", "hi", "ghi", "ppfd", "global", "par", "foo"}

\* a sky grid of three cells
Grids ==
    {<<[az |-> 0, z |-> 3000, w |-> 2000],
       [az |-> 18000, z |-> 6000, w |-> 4000],
       [az |-> 9000, z |-> 6000, w |-> 4000]>>}

\* sun_disc argument, hundredths of a degree (default 1 degree)
SunDiscs == {100}

Column(t, name) == Arr([i \in 1..Len(t.rows) |-> t.rows[i][name]], Len(t.rows))

\* pandas Series.sum()
ColSum(t, name) == SumSeq(Column(t, name), Len(t.rows))

\* pandas Series.mean(): nan for an empty series
ColMean(t, name) == FxDiv(ColSum(t, name), Fx(Len(t.rows)))

----------------------------------------------------------------------------
(* sky_luminance.py: sky_luminance, one action per stage *)

Unset == <<>>

\* w_c * luminance
Weighted(g, lum) == Arr([c \in Cells(g) |-> FxMul(g[c].w, lum[c])], Len(g))

ZeroDivisionError(line) == [kind |-> "raise", exc |-> "ZeroDivisionError", at |-> line]

\* the soc field of lines 255-256, Unset for the types that do not use it
soc_field_of(g, sky_type) ==
    IF sky_type \in {"blended", "sun_soc"}
    THEN Weighted(g, cie_relative_luminance(None, Some(g), 0, 0, "soc").value)
    ELSE Unset

\* variant: the irradiance table is never asked for
irradiance_optional(sky_type, t) == FALSE

\* lines 244-245: the sky types other than soc and uoc need an irradiance table
irradiance_required(sky_type, t) == sky_type \notin {"soc", "uoc"} /\ t.none

\* lines 244-256: the argument check (which raises before line 248 unpacks the
\* grid and line 250 creates the sun list), then the fields set before the loop
sky_luminance_enter ==
    /\ pc = "idle"
    /\ \E sky_type \in SkyTypes, t \in Tables, scale \in Scales,
          sun_in_sky \in BOOLEAN, sun_disc \in SunDiscs, g \in Grids :
         /\ fn' = "sky_luminance"
         /\ args' = [sky_type |-> sky_type, sky_irradiance |-> t, scale |-> scale,
                     sun_in_sky |-> sun_in_sky, sun_disc |-> sun_disc, grid |-> g]
         /\ IF irradiance_required(sky_type, t)
            THEN /\ ret' = ValueError(246)
                 /\ pc' = "done"
                 /\ UNCHANGED <<grid, sun, row_i, sky, soc>>
            ELSE IF sky_type \in {"soc", "uoc"}
            THEN /\ grid' = g
                 /\ sun' = <<>>
                 /\ row_i' = 1
                 /\ sky' = Weighted(g, cie_relative_luminance(None, Some(g), 0, 0, sky_type).value)
                 /\ pc' = "finish"
                 /\ UNCHANGED <<ret, soc>>
            ELSE /\ grid' = g
                 /\ sun' = <<>>
                 /\ row_i' = 1
                 /\ sky' = Rep(0, Len(g))
                 /\ soc' = soc_field_of(g, sky_type)
                 /\ pc' = "loop"
                 /\ UNCHANGED ret

\* lines 259-262: cs = w_c * cie_relative_luminance(grid, row.zenith, row.azimuth, 'clear_sky')
clear_sky_field(g, row) ==
    Weighted(g, cie_relative_luminance(None, Some(g), row.zenith, row.azimuth,
                                       "clear_sky").value)

\* line 268: f_clear * cs + (1 - f_clear) * soc
blended_field(g, f_clear, cs, soc_field) ==
    Arr([c \in Cells(g) |->
            FxAdd(FxMul(f_clear, cs[c]), FxMul(FxSub(FxOne, f_clear), soc_field[c]))], Len(g))

\* lines 270-277: the all-weather field of a timestep
all_weather_field(g, row) ==
    Weighted(g, all_weather_relative_luminance(g, row.zenith, row.azimuth,
                    all_weather_sky_clearness(row.dni, row.dhi, row.zenith),
                    all_weather_sky_brightness(row.Index, row.dhi, row.zenith)))

\* variant: an unknown sky type falls back to the overcast field
row_luminance_default(g, sky_type, row, soc_field) ==
    CASE sky_type = "clear_sky" -> Return(clear_sky_field(g, row))
      [] sky_type = "sun_soc" -> Return(soc_field)
      [] sky_type = "blended" ->
           Return(blended_field(g, f_clear_sky(all_weather_sky_clearness(row.dni, row.dhi,
                                                                         row.zenith)),
                                clear_sky_field(g, row), soc_field))
      [] sky_type = "all_weather" -> Return(all_weather_field(g, row))
      [] OTHER -> Return(Weighted(g, cie_relative_luminance(None, Some(g), 0, 0, "soc").value))

\* lines 258-280: the relative luminance of one timestep, or an exception
row_luminance(g, sky_type, row, soc_field) ==
    CASE sky_type = "clear_sky" -> Return(clear_sky_field(g, row))
      [] sky_type = "sun_soc" -> Return(soc_field)
      [] sky_type = "blended" ->
           Return(blended_field(g, f_clear_sky(all_weather_sky_clearness(row.dni, row.dhi,
                                                                         row.zenith)),
                                clear_sky_field(g, row), soc_field))
      [] sky_type = "all_weather" -> Return(all_weather_field(g, row))
      [] OTHER -> ValueError(280)

\* the cells within sun_disc of the sun: ksi_sun <= sun_disc
sun_mask(g, ksi_sun, sun_disc) == {c \in Cells(g) : ksi_sun[c] <= sun_disc}

\* lines 281-282: rescale the field to the timestep's dhi
rescale_dhi(g, lum, row) ==
    Scaled(Divided(lum, Len(g), sky_hi(g, lum)), Len(g), row.dhi)

\* variant: a sun as bright as the sky behind it is added too
sun_as_bright(g, lum, row, ksi_sun, sun_disc) ==
    row.dni >= SumOver(lum, sun_mask(g, ksi_sun, sun_disc))

\* line 285: only add sun if it is brighter than sky
sun_brighter(g, lum, row, ksi_sun, sun_disc) ==
    FxGt(row.dni, SumOver(lum, sun_mask(g, ksi_sun, sun_disc)))

\* horizontal_irradiance(lum[mask], 90 - z_c[mask]).sum()
masked_hi(g, lum, mask) ==
    SumOver([c \in mask |-> horizontal_irradiance(lum[c], 9000 - g[c].z)], mask)

\* line 294: w_c[mask] * directional_luminance(sun_hi / sun_size, 90 - z_c[mask])
sun_patch(g, mask, sun_hi) ==
    [c \in mask |->
        FxMul(g[c].w, directional_luminance(FxDiv(sun_hi, Fx(Cardinality(mask))),
                                            9000 - g[c].z))]

\* lines 290 and 294-295: the field scaled by ratio outside the sun disc, the
\* patch scaled by patch_ratio inside
fold_cells(g, lum, mask, ratio, patch, patch_ratio) ==
    Arr([c \in Cells(g) |->
            IF c \in mask THEN FxMul(patch[c], patch_ratio) ELSE FxMul(lum[c], ratio)], Len(g))

\* lines 289-295 with the sun patch of line 294
fold_patched(g, lum, row, mask, patch) ==
    fold_cells(g, lum, mask,
               FxDiv(row.dhi, FxSub(row.dhi, masked_hi(g, lum, mask))),
               patch,
               FxDiv(FxSub(row.ghi, row.dhi), masked_hi(g, patch, mask)))

\* lines 289-295 for the cells of the sun disc; sun_hi / sun_size is a Python
\* float divided by an int, so an empty disc raises ZeroDivisionError
fold_mask(g, lum, row, mask) ==
    IF Cardinality(mask) = 0 THEN ZeroDivisionError(294)
    ELSE Return(fold_patched(g, lum, row, mask, sun_patch(g, mask, FxSub(row.ghi, row.dhi))))

\* lines 289-295: spread the dhi behind the sun disc over the sky, then set the
\* disc cells to the sun luminance
fold_sun(g, lum, row, ksi_sun, sun_disc) == fold_mask(g, lum, row, sun_mask(g, ksi_sun, sun_disc))

\* sky += _lum
accumulate(g, field, lum) == Arr([c \in Cells(g) |-> FxAdd(field[c], lum[c])], Len(g))

\* what one iteration leaves: an exception, or whether a sun source is
\* appended (emit) and the field added to sky (lum)
loop_outcome(emit, folded) ==
    IF folded.kind = "raise"
    THEN [kind |-> "raise", emit |-> emit, exc |-> folded]
    ELSE [kind |-> "return", emit |-> emit, lum |-> folded.value]

\* lines 286-295: the sun source and, with sun_in_sky, the sun folded in the field
loop_fold(g, row, sun_disc, sun_in_sky, _lum, ksi_sun, emit) ==
    loop_outcome(emit, IF emit /\ sun_in_sky
                       THEN fold_sun(g, _lum, row, ksi_sun, sun_disc)
                       ELSE Return(_lum))

\* line 285: the test of the sun against the sky behind it
loop_sun(g, row, sun_disc, sun_in_sky, _lum, ksi_sun) ==
    loop_fold(g, row, sun_disc, sun_in_sky, _lum, ksi_sun,
              sun_brighter(g, _lum, row, ksi_sun, sun_disc))

\* lines 280-284: the exception of an unknown sky type, or the field rescaled
\* to dhi and the angles to the sun
loop_rescale(g, row, sun_disc, sun_in_sky, rel) ==
    IF rel.kind = "raise" THEN [kind |-> "raise", emit |-> FALSE, exc |-> rel]
    ELSE loop_sun(g, row, sun_disc, sun_in_sky, rescale_dhi(g, rel.value, row),
                  ksi_grid(g, row.zenith, row.azimuth))

\* lines 258-295: the body of the loop for one row
loop_body(g, sky_type, row, soc_field, sun_disc, sun_in_sky) ==
    loop_rescale(g, row, sun_disc, sun_in_sky, row_luminance(g, sky_type, row, soc_field))

\* an entry of the table of loop_body: its arguments, its result
loop_body_entry(g, sky_type, row, soc_field, sun_disc, sun_in_sky) ==
    <<<<g, sky_type, row, soc_field, sun_disc, sun_in_sky>>,
      loop_body(g, sky_type, row, soc_field, sun_disc, sun_in_sky)>>

\* loop_body tabulated once for the inputs of the model (a memo of the pure
\* function above, keyed by its arguments)
loop_body_memo ==
    {loop_body_entry(g, ty, r, soc_field_of(g, ty), d, b) :
        g \in Grids, ty \in SkyTypes \ {"soc", "uoc"}, r \in RowSet, d \in SunDiscs, b \in BOOLEAN}

\* loop_body, read from the table
loop_body_of(g, sky_type, row, soc_field, sun_disc, sun_in_sky) ==
    (CHOOSE m \in loop_body_memo :
        m[1] = <<g, sky_type, row, soc_field, sun_disc, sun_in_sky>>)[2]

\* lines 263-277: the array the name _lum is bound to: "cs" and "soc" are the
\* arrays of those names (plain assignments, no copy), "new" a fresh array
lum_object(sky_type) ==
    CASE sky_type = "clear_sky" -> "cs"
      [] sky_type = "sun_soc" -> "soc"
      [] OTHER -> "new"

\* variant: the rescaling done in place, _lum staying bound to the same array
rescaled_in_place(obj) == obj

\* line 282: _lum = _lum / _hi * row.dhi binds _lum to a fresh array, which is
\* the one the in-place operations of lines 290-295 write to
rescaled_object(obj) == "new"

\* lines 257-296: one iteration of the loop over sky_irradiance.itertuples()
sky_luminance_row ==
    /\ pc = "loop"
    /\ fn = "sky_luminance"
    /\ row_i <= Len(args.sky_irradiance.rows)
    /\ \E row \in {args.sky_irradiance.rows[row_i]} :
         \E body \in {loop_body_of(grid, args.sky_type, row, soc, args.sun_disc,
                                   args.sun_in_sky)} :
           /\ sun' = IF body.emit
                     THEN Append(sun, <<9000 - row.zenith, row.azimuth, row.dni>>)
                     ELSE sun
           /\ IF body.kind = "raise"
              THEN /\ ret' = body.exc
                   /\ pc' = "done"
                   /\ UNCHANGED <<sky, row_i>>
              ELSE /\ sky' = accumulate(grid, sky, body.lum)
                   /\ row_i' = row_i + 1
                   /\ UNCHANGED <<ret, pc>>
           /\ soc' = IF rescaled_object(lum_object(args.sky_type)) = "soc"
                        /\ body.kind = "return"
                     THEN body.lum
                     ELSE soc
    /\ UNCHANGED <<fn, args, grid>>

\* the loop is exhausted
sky_luminance_end_loop ==
    /\ pc = "loop"
    /\ fn = "sky_luminance"
    /\ row_i > Len(args.sky_irradiance.rows)
    /\ pc' = "finish"
    /\ UNCHANGED <<fn, args, ret, grid, row_i, sun, sky, soc>>

\* list(map(numpy.array, zip(*sun))): three arrays, or [] for an empty list
zip_sun(suns) ==
    IF suns = <<>> THEN <<>>
    ELSE <<Arr([i \in 1..Len(suns) |-> suns[i][1]], Len(suns)),
           Arr([i \in 1..Len(suns) |-> suns[i][2]], Len(suns)),
           Arr([i \in 1..Len(suns) |-> suns[i][3]], Len(suns))>>

\* lines 309-323: the scaling factor, or the exception of a bad scale
scale_factor(scale, t) ==
    CASE scale = "None" -> Return(FxOne)
      [] scale # "None" /\ t.none -> ValueError(313)
      [] scale = "hi" /\ ~t.none -> Return(ColMean(t, "ghi"))
      [] scale = "ppfd" /\ ~t.none -> Return(ColMean(t, "ppfd"))
      [] scale = "global" /\ ~t.none -> Return(FxMul(ColSum(t, "ghi"), 36))
      [] scale = "par" /\ ~t.none -> Return(FxMul(ColSum(t, "ppfd"), 36))
      [] OTHER -> ValueError(323)

\* line 327: sun = sun_el, sun_az, sun_lum, whatever sun held before
final_sun(sun_before, sun_el, sun_az, sun_lum) == <<sun_el, sun_az, sun_lum>>

\* line 302: sun_lum /= sum(horizontal_irradiance(sun_lum, sun_el))
unit_sun(sun_el, sun_lum) ==
    Divided(sun_lum, Len(sun_lum),
            SumSeq([i \in 1..Len(sun_lum) |-> horizontal_irradiance(sun_lum[i], sun_el[i])],
                   Len(sun_lum)))

\* sky_irradiance.dhi.sum() / sky_irradiance.ghi.sum()
f_sky(t) == FxDiv(ColSum(t, "dhi"), ColSum(t, "ghi"))

\* lines 325-328: scale, rebind sun, return; or the exception of the scale
result_scale(zipped, sun_304, sky2, sun_lum2, sc) ==
    IF sc.kind = "raise" THEN sc
    ELSE Return([sun |-> final_sun(sun_304, zipped[1], zipped[2],
                                   Scaled(sun_lum2, Len(sun_lum2), sc.value)),
                 sky |-> Scaled(sky2, Len(sky2), sc.value)])

\* lines 303-307: the sun list emptied, or the split between sun and sky
result_split(t, scale, sun_in_sky, zipped, sky1, sun_lum1) ==
    result_scale(zipped,
                 IF sun_in_sky THEN <<<<>>, <<>>, <<>>>> ELSE zipped,
                 IF sun_in_sky THEN sky1 ELSE Scaled(sky1, Len(sky1), f_sky(t)),
                 IF sun_in_sky THEN sun_lum1
                 ELSE Scaled(sun_lum1, Len(sun_lum1), FxSub(FxOne, f_sky(t))),
                 scale_factor(scale, t))

\* lines 299-302: unpack the sun arrays, normalise sky and sun to hi = 1
result_unpack(g, t, scale, sun_in_sky, zipped, field) ==
    IF Len(zipped) # 3 THEN ValueError(299)
    ELSE result_split(t, scale, sun_in_sky, zipped,
                      Divided(field, Len(g), sky_hi(g, field)),
                      unit_sun(zipped[1], zipped[3]))

\* lines 298-328: normalise, split between sun and sky, scale, return
sky_luminance_result(g, t, scale, sun_in_sky, suns, field) ==
    result_unpack(g, t, scale, sun_in_sky, zip_sun(suns), field)

sky_luminance_finish ==
    /\ pc = "finish"
    /\ fn = "sky_luminance"
    /\ ret' = sky_luminance_result(grid, args.sky_irradiance, args.scale, args.sun_in_sky,
                                   sun, sky)
    /\ pc' = "done"
    /\ UNCHANGED <<fn, args, grid, row_i, sun, sky, soc>>

----------------------------------------------------------------------------
(* sun_and_sky.py.  Its collaborators clear_sky_irradiances and            *)
(* sun_position give the hourly clear-sky table of the requested day.      *)

\* clear_sky_irradiances joined with sun_position: two hours, the first with
\* the sun 0.2 and 0.3 degrees away from a turtle direction
clear_sky_day ==
    <<[elevation |-> 2677, azimuth |-> 7230, ghi |-> Fx(500), dhi |-> Fx(100)],
      [elevation |-> 6000, azimuth |-> 18000, ghi |-> Fx(900), dhi |-> Fx(120)]>>

\* gradation x indicatrix on directions given in radians, for the sun at
\* zenith angle sun_z in direction v_sun
cie_luminance_el(el, az, ab, sun_z, v_sun, type) ==
    Arr([i \in 1..Len(el) |->
            FxMul(cie_luminance_gradation(9000 - degrees(el[i]), ab[1], ab[2]),
                  IF type = "clear_sky"
                  THEN cie_scattering_indicatrix(
                           acute(cartesian(9000 - degrees(el[i]), degrees(az[i])), v_sun),
                           sun_z, Fx(10), -Fx(3), 4500)
                  ELSE FxOne)], Len(el))

\* cie_relative_luminance of alinea.astk.meteorology.sky_luminance, called with
\* elevations and azimuths in radians: gradation x indicatrix with the
\* coefficients of the sky type, invalid-argument error for an unknown type
cie_relative_luminance_el(el, az, sun_elevation, sun_azimuth, type) ==
    IF type \notin SkyTypesCie THEN ValueError(0)
    ELSE Return(cie_luminance_el(el, az, cie_ab(type), 9000 - degrees(sun_elevation),
                                 cartesian(9000 - degrees(sun_elevation), degrees(sun_azimuth)),
                                 type))

\* numpy.radians of an array
radians_of(a) == Arr([i \in 1..Len(a) |-> radians(a[i])], Len(a))

\* lines 115-120: the azimuths, moved by sun_disc where a direction points to
\* the solar disc
avoid_sun_az(el, az, sun_el, sun_az, sun_disc) ==
    Arr([i \in 1..Len(az) |->
            IF Abs(az[i] - sun_az) < sun_disc /\ Abs(el[i] - sun_el) < sun_disc
            THEN az[i] + sun_disc ELSE az[i]], Len(az))

\* line 125: rad_dist /= sum(rad_dist)
unit_total(a) == Divided(a, Len(a), SumSeq(a, Len(a)))

\* lines 124-127: lum * sky_fraction normalised, or the exception of lum
radiance_of(lum, sky_fraction) ==
    IF lum.kind = "raise" THEN lum
    ELSE Return(unit_total(Arr([i \in 1..Len(sky_fraction) |->
                                   FxMul(lum.value[i], sky_fraction[i])], Len(sky_fraction))))

\* lines 106-123 on angles in radians
sky_radiance_rad(el, az, sky_fraction, sky_type, sun_el, sun_az, avoid_sun) ==
    radiance_of(cie_relative_luminance_el(el,
                    IF avoid_sun /\ sky_type = "clear_sky"
                    THEN avoid_sun_az(el, az, sun_el, sun_az, radians(55))
                    ELSE az,
                    sun_el, sun_az, sky_type),
                sky_fraction)

\* sky_radiance_distribution(sky_elevation, sky_azimuth, sky_fraction, sky_type,
\* sun_elevation, sun_azimuth, avoid_sun): angles in hundredths of a degree
sky_radiance_distribution(sky_elevation, sky_azimuth, sky_fraction, sky_type, sun_elevation, sun_azimuth, avoid_sun) ==
    sky_radiance_rad(radians_of(sky_elevation), radians_of(sky_azimuth), sky_fraction,
                     sky_type, radians(sun_elevation), radians(sun_azimuth), avoid_sun)

\* sum of a column of the clear-sky table
DaySum(name) == SumSeq([i \in 1..Len(clear_sky_day) |-> clear_sky_day[i][name]],
                       Len(clear_sky_day))

\* horizontal_irradiance(radiance, source_elevation) of an array
sources_hi(radiance, elevation) ==
    Arr([i \in 1..Len(elevation) |-> horizontal_irradiance(radiance[i], elevation[i])],
        Len(elevation))

\* line 234: source_irradiance += horizontal_irradiance(rad, source_elevation) * row['wsky']
add_weighted(before, hi, wsky) ==
    Arr([i \in 1..Len(before) |-> FxAdd(before[i], FxMul(hi[i], wsky))], Len(before))

RECURSIVE clear_sky_sum(_, _, _)
\* the loop of lines 227-235 over the first k rows of c_sky
clear_sky_sum(disc, n, k) ==
    IF k = 0 THEN Rep(0, n)
    ELSE add_weighted(clear_sky_sum(disc, n, k - 1),
                      sources_hi(sky_radiance_distribution(disc.elevation, disc.azimuth,
                                     disc.fraction, "clear_sky", clear_sky_day[k].elevation,
                                     clear_sky_day[k].azimuth, TRUE).value,
                                 disc.elevation),
                      FxDiv(clear_sky_day[k].dhi, DaySum("dhi")))

\* lines 200-235: the irradiance of the sources before normalisation
source_irradiance_of(sky_type, disc) ==
    IF sky_type \in {"soc", "uoc"}
    THEN sources_hi(sky_radiance_distribution(disc.elevation, disc.azimuth, disc.fraction,
                                              sky_type, 0, 0, TRUE).value,
                    disc.elevation)
    ELSE clear_sky_sum(disc, Len(disc.elevation), Len(clear_sky_day))

\* lines 205-211 and 221-222: the irradiance asked for, or its default
irradiance_or_default(sky_type, irradiance) ==
    IF ~irradiance.none THEN irradiance.v
    ELSE IF sky_type = "clear_sky" THEN DaySum("dhi")
    ELSE FxMul(DaySum("ghi"), 2000)

\* variant: the sources normalised to a unit total, whatever the irradiance
sources_result_unit(disc, source_irradiance, irr) ==
    [elevation |-> disc.elevation, azimuth |-> disc.azimuth,
     irradiance |-> unit_total(source_irradiance)]

\* lines 241-243: normalise the sources and scale them to the irradiance
sources_result(disc, source_irradiance, irr) ==
    [elevation |-> disc.elevation, azimuth |-> disc.azimuth,
     irradiance |-> Scaled(unit_total(source_irradiance), Len(source_irradiance), irr)]

\* lines 200-243 on the directions of the discretisation
sky_sources_on(sky_type, irradiance, disc) ==
    IF sky_type \notin {"soc", "uoc", "clear_sky"} THEN ValueError(237)
    ELSE Return(sources_result(disc, source_irradiance_of(sky_type, disc),
                               irradiance_or_default(sky_type, irradiance)))

\* sky_sources(sky_type, irradiance, turtle_sectors): irradiance is optional
sky_sources(sky_type, irradiance, turtle_sectors) ==
    sky_sources_on(sky_type, irradiance, sky_discretisation(turtle_sectors))

\* (sky['ghi'] - sky['dhi']).sum()
sun_hi_sum(t) ==
    SumSeq([i \in 1..Len(t.rows) |-> FxSub(t.rows[i].ghi, t.rows[i].dhi)], Len(t.rows))

\* variant: the ratio without the test of the dni column
sun_fraction_unguarded(t) == FxDiv(sun_hi_sum(t), ColSum(t, "ghi"))

\* sun_fraction(sky)
sun_fraction(t) ==
    IF ColSum(t, "dni") = 0 THEN 0 ELSE FxDiv(sun_hi_sum(t), ColSum(t, "ghi"))

\* c_sky['ghi'] - c_sky['dhi']
sun_irradiance_day ==
    Arr([i \in 1..Len(clear_sky_day) |-> FxSub(clear_sky_day[i].ghi, clear_sky_day[i].dhi)],
        Len(clear_sky_day))

\* sun_sources(irradiance): irradiance is optional
sun_sources(irradiance) ==
    [elevation |-> Arr([i \in 1..Len(clear_sky_day) |-> clear_sky_day[i].elevation],
                       Len(clear_sky_day)),
     azimuth |-> Arr([i \in 1..Len(clear_sky_day) |-> clear_sky_day[i].azimuth],
                     Len(clear_sky_day)),
     irradiance |-> IF irradiance.none THEN sun_irradiance_day
                    ELSE Scaled(unit_total(sun_irradiance_day), Len(clear_sky_day),
                                irradiance.v)]

UnboundLocalError(line) == [kind |-> "raise", exc |-> "UnboundLocalError", at |-> line]

\* line 312: f_clear_sky is assigned in sun_sky_sources, hence a local name of
\* the function, and it is called before it is bound
call_local_f_clear_sky(sky_irr, f_sun) == UnboundLocalError(312)

\* the irradiances sun_sky_sources asks of the soc sky for the tables of the model
soc_irradiances ==
    {FxSub(FxOne, sun_fraction(Table(q))) : q \in SeqsUpTo(RowSet, MaxRows) \ {<<>>}}
        \cup {FxOne}

\* sky_sources(sky_type='soc', irradiance=x) with the default 46 sectors,
\* tabulated for the sun fractions of the model's tables
soc_sources_memo == {<<x, sky_sources("soc", Some(x), 46)>> : x \in soc_irradiances}

\* sky_sources('soc', x), read from the table
soc_sources_of(x) == (CHOOSE m \in soc_sources_memo : m[1] = x)[2]

\* variant: the test of f_sun == 0 alone comes before the test that includes it
sun_sky_branch_swapped(model, f_sun) ==
    IF model = "blended" /\ f_sun > 0 THEN 311
    ELSE IF f_sun = 0 THEN 322
    ELSE IF model = "sun_soc" \/ f_sun = 0 THEN 320
    ELSE 324

\* lines 311, 320, 322 and 324: the branch of the if / elif chain that is
\* taken, named by the line of its test
sun_sky_branch(model, f_sun) ==
    IF model = "blended" /\ f_sun > 0 THEN 311
    ELSE IF model = "sun_soc" \/ f_sun = 0 THEN 320
    ELSE IF f_sun = 0 THEN 322
    ELSE 324

\* lines 311-328 for the sun fraction, the sun sources and the soc sky
sun_sky_model(sky_irr, model, f_sun, sun_src, soc_irradiance) ==
    CASE sun_sky_branch(model, f_sun) = 311 -> call_local_f_clear_sky(sky_irr, f_sun)
      [] sun_sky_branch(model, f_sun) \in {320, 322} ->
            Return([sky_irr |-> sky_irr, sun |-> sun_src,
                    sky |-> soc_sources_of(soc_irradiance).value])
      [] OTHER -> ValueError(325)

\* lines 320-323: the irradiance of the soc sky, 1 - f_sun in the first branch
\* and 1 in the second
soc_irradiance_of(model, f_sun) ==
    IF sun_sky_branch(model, f_sun) = 320 THEN FxSub(FxOne, f_sun) ELSE FxOne

\* sun_sky_sources(model): sky_irr is what sky_irradiance() returns for the
\* caller's ghi, dhi and dates
sun_sky_sources(sky_irr, model) ==
    sun_sky_model(sky_irr, model, sun_fraction(sky_irr),
                  sun_sources(Some(sun_fraction(sky_irr))),
                  soc_irradiance_of(model, sun_fraction(sky_irr)))

----------------------------------------------------------------------------
(* The functions that return in one step *)

\* requested sector counts
TurtleRequests == {0, 1, 2, 6, 7, 16, 17, 46, 47, 60}

\* clearness values, Fx: every bin edge, its neighbours, and values outside
ClearnessSet ==
    {9000, 80000} \cup {bins[i] + d : i \in 1..Len(bins), d \in {-1, 0, 1}}

ZenithSet == {0, 3000, 6000}

BrightnessSet == {1000, 3000}

Models == {"blended", "sun_soc", "foo"}

call_all_weather_abcde ==
    /\ pc = "idle"
    /\ \E sun_zenith \in ZenithSet, clearness \in ClearnessSet, brightness \in BrightnessSet :
         /\ fn' = "all_weather_abcde"
         /\ args' = [sun_zenith |-> sun_zenith, clearness |-> clearness,
                     brightness |-> brightness]
         /\ ret' = Return(all_weather_abcde(sun_zenith, clearness, brightness))
    /\ pc' = "done"
    /\ UNCHANGED <<grid, row_i, sun, sky, soc>>

call_sky_discretisation ==
    /\ pc = "idle"
    /\ \E turtle_sectors \in TurtleRequests :
         /\ fn' = "sky_discretisation"
         /\ args' = [turtle_sectors |-> turtle_sectors]
         /\ ret' = Return(sky_discretisation(turtle_sectors))
    /\ pc' = "done"
    /\ UNCHANGED <<grid, row_i, sun, sky, soc>>

call_cie_relative_luminance ==
    /\ pc = "idle"
    /\ \E sky_zenith \in {None, Some(<<0, 4500, 9000>>)},
          g \in {None} \cup {Some(x) : x \in Grids},
          type \in SkyTypes, sunpos \in {<<6000, 18000>>, <<3000, 9000>>} :
         /\ fn' = "cie_relative_luminance"
         /\ args' = [sky_zenith |-> sky_zenith, grid |-> g, sun_zenith |-> sunpos[1],
                     sun_azimuth |-> sunpos[2], type |-> type]
         /\ ret' = cie_relative_luminance(sky_zenith, g, sunpos[1], sunpos[2], type)
    /\ pc' = "done"
    /\ UNCHANGED <<grid, row_i, sun, sky, soc>>

call_sky_sources ==
    /\ pc = "idle"
    /\ \E sky_type \in SkyTypes, irradiance \in {None, Some(FxOne), Some(Fx(100))},
          turtle_sectors \in TurtleRequests :
         /\ fn' = "sky_sources"
         /\ args' = [sky_type |-> sky_type, irradiance |-> irradiance,
                     turtle_sectors |-> turtle_sectors]
         /\ ret' = sky_sources(sky_type, irradiance, turtle_sectors)
    /\ pc' = "done"
    /\ UNCHANGED <<grid, row_i, sun, sky, soc>>

call_sun_sky_sources ==
    /\ pc = "idle"
    /\ \E q \in SeqsUpTo(RowSet, MaxRows) \ {<<>>}, model \in Models :
         /\ fn' = "sun_sky_sources"
         /\ args' = [sky_irr |-> Table(q), model |-> model]
         /\ ret' = sun_sky_sources(Table(q), model)
    /\ pc' = "done"
    /\ UNCHANGED <<grid, row_i, sun, sky, soc>>

\* hours of a table handed to sun_fraction, which reads ghi, dhi and dni only
FractionRows ==
    {[ghi |-> ghi, dhi |-> dhi, dni |-> dni] :
        ghi \in {0, Fx(200), Fx(500)}, dhi \in {0, Fx(200)}, dni \in {0, Fx(400)}}

call_sun_fraction ==
    /\ pc = "idle"
    /\ \E q \in SeqsUpTo(FractionRows, MaxRows) :
         /\ fn' = "sun_fraction"
         /\ args' = [sky |-> Table(q)]
         /\ ret' = Return(sun_fraction(Table(q)))
    /\ pc' = "done"
    /\ UNCHANGED <<grid, row_i, sun, sky, soc>>

----------------------------------------------------------------------------

NoRet == [kind |-> "none"]

NoArgs == [none |-> TRUE]

Init ==
    /\ pc = "idle"
    /\ fn = "none"
    /\ args = NoArgs
    /\ ret = NoRet
    /\ grid = Unset
    /\ row_i = 0
    /\ sun = <<>>
    /\ sky = Unset
    /\ soc = Unset

\* the caller takes the result or the exception; the next call starts afresh
Finished ==
    /\ pc = "done"
    /\ pc' = "idle"
    /\ fn' = "none"
    /\ args' = NoArgs
    /\ ret' = NoRet
    /\ grid' = Unset
    /\ row_i' = 0
    /\ sun' = <<>>
    /\ sky' = Unset
    /\ soc' = Unset

Next ==
    \/ call_all_weather_abcde
    \/ call_sky_discretisation
    \/ call_cie_relative_luminance
    \/ call_sky_sources
    \/ call_sun_sky_sources
    \/ call_sun_fraction
    \/ sky_luminance_enter
    \/ sky_luminance_row
    \/ sky_luminance_end_loop
    \/ sky_luminance_finish
    \/ Finished

Spec == Init /\ [][Next]_vars

----------------------------------------------------------------------------
(* Properties *)

Done(f) == pc = "done" /\ fn = f

EmptySun == <<<<>>, <<>>, <<>>>>

\* C1: sky_luminance called with sun_in_sky=True on a sky type other than
\* soc/uoc returns an empty sun tuple, whatever timesteps emitted a sun source.
C1_SunEmptied ==
    (Done("sky_luminance") /\ args.sky_type \notin {"soc", "uoc"} /\ args.sun_in_sky
        /\ ret.kind = "return")
    => ret.value.sun = EmptySun

\* the unit-total sky of a time-invariant sky type: weight x relative
\* luminance divided by its horizontal irradiance
UnitSky(g, sky_type) ==
    LET field == Weighted(g, cie_relative_luminance(None, Some(g), 0, 0, sky_type).value)
        hi == sky_hi(g, field)
    IN  Arr([c \in Cells(g) |-> FxDiv(field[c], hi)], Len(g))

\* C2: for sky_type soc or uoc, sky_luminance called with sky_irradiance=None
\* and scale=None returns normally, with no sun source and the sky equal to
\* weight x relative luminance normalised to unit horizontal irradiance.
C2_SocNeedsNoIrradiance ==
    (Done("sky_luminance") /\ args.sky_type \in {"soc", "uoc"}
        /\ args.sky_irradiance.none /\ args.scale = "None")
    => /\ ret.kind = "return"
       /\ ret.value.sun = EmptySun
       /\ ret.value.sky = UnitSky(args.grid, args.sky_type)

\* the result the call gives with scale=None, from the sun list and the sky
\* field the loop has left
UnitResult ==
    sky_luminance_result(grid, args.sky_irradiance, "None", args.sun_in_sky, sun, sky)

\* the loop over the rows of sky_irradiance has run to its end
LoopCompleted == ~args.sky_irradiance.none /\ row_i > Len(args.sky_irradiance.rows)

\* C3: sky_luminance accepts the scale token 'ghi': a call that gives a result
\* with scale=None gives, with scale='ghi', that result with the sun and sky
\* luminances multiplied by the mean of sky_irradiance.ghi.
C3_ScaleGhi ==
    (Done("sky_luminance") /\ args.scale = "ghi" /\ LoopCompleted
        /\ UnitResult.kind = "return")
    => /\ ret.kind = "return"
       /\ \A c \in Cells(grid) :
            ret.value.sky[c] = FxMul(UnitResult.value.sky[c],
                                     ColMean(args.sky_irradiance, "ghi"))
       /\ \A i \in 1..Len(ret.value.sun[3]) :
            ret.value.sun[3][i] = FxMul(UnitResult.value.sun[3][i],
                                        ColMean(args.sky_irradiance, "ghi"))

\* the a, b and e of the linear fit of a table row (0-based)
LinearABE(a, row) ==
    <<awfit(a1_tab, a2_tab, a3_tab, a4_tab, radians(a.sun_zenith), a.brightness, row),
      awfit(b1_tab, b2_tab, b3_tab, b4_tab, radians(a.sun_zenith), a.brightness, row),
      awfit(e1_tab, e2_tab, e3_tab, e4_tab, radians(a.sun_zenith), a.brightness, row)>>

ReturnedABE == <<ret.value[1], ret.value[2], ret.value[5]>>

\* C4 as stated: a clearness equal to the bin edge bins[k] selects the bin to
\* the right of the edge, the row whose lower bound is the edge (row k - 1,
\* 0-based), for every edge.
C4_EdgeSelectsRightBin ==
    Done("all_weather_abcde") =>
        \A k \in 1..Len(bins) :
            args.clearness = bins[k] => ReturnedABE = LinearABE(args, k - 1)

\* C4 amended: a clearness equal to the bin edge bins[k] selects the bin to the
\* left of the edge, the row whose upper bound is the edge (row k - 2,
\* 0-based), except the lowest edge, 1, which selects the lowest row 0.
C4_EdgeSelectsLeftBin ==
    Done("all_weather_abcde") =>
        \A k \in 1..Len(bins) :
            args.clearness = bins[k] =>
                ReturnedABE = LinearABE(args, IF k = 1 THEN 0 ELSE k - 2)

C4_Witness ==
    /\ Done("all_weather_abcde")
    /\ args.clearness = bins[2]
    /\ ReturnedABE = LinearABE(args, 0)
    /\ ReturnedABE # LinearABE(args, 1)

\* C5: the alternate exponential fit of c and d replaces the linear fit
\* exactly when the selected row is the lowest bin (index 0); for every other
\* selected row c and d are the linear fit of that row; a, b and e are always
\* the linear fit of the selected row.
C5_AlternateFitOnlyLowestBin ==
    Done("all_weather_abcde") =>
        LET row == abcde_index(args.clearness)
            z == radians(args.sun_zenith)
            br == args.brightness
        IN  /\ ReturnedABE = LinearABE(args, row)
            /\ ret.value[3] = IF row = 0 THEN c_expfit(z, br)
                              ELSE awfit(c1_tab, c2_tab, c3_tab, c4_tab, z, br, row)
            /\ ret.value[4] = IF row = 0 THEN d_expfit(z, br)
                              ELSE awfit(d1_tab, d2_tab, d3_tab, d4_tab, z, br, row)

C5_Witness ==
    /\ Done("all_weather_abcde")
    /\ args.clearness = 10650
    /\ abcde_index(args.clearness) = 0
    /\ ret.value[3] = c_expfit(radians(args.sun_zenith), args.brightness)
    /\ ret.value[3] # awfit(c1_tab, c2_tab, c3_tab, c4_tab, radians(args.sun_zenith),
                            args.brightness, 0)

\* C6: sky_discretisation uses the smallest cardinality of {1, 6, 16, 46} that
\* is at least the requested count, and a request above 46 gives 46 without
\* raising.
C6_SmallestCardinality ==
    Done("sky_discretisation") =>
        LET k == args.turtle_sectors
            n == Len(ret.value.elevation)
        IN  /\ ret.kind = "return"
            /\ n \in {1, 6, 16, 46}
            /\ k <= 46 => (n >= k /\ \A m \in {1, 6, 16, 46} : m >= k => n <= m)
            /\ k > 46 => n = 46

C6_Witness ==
    /\ Done("sky_discretisation")
    /\ args.turtle_sectors = 60
    /\ ret.kind = "return"
    /\ Len(ret.value.elevation) = 46

\* C7: for a requested count n in {1, 6, 16, 46} the elevations, azimuths and
\* fractions all have length n, each fraction is 1/n (to the resolution of the
\* arithmetic), and the fractions sum to 1 (within n units of that resolution).
C7_TurtleFractions ==
    (Done("sky_discretisation") /\ args.turtle_sectors \in {1, 6, 16, 46}) =>
        LET n == args.turtle_sectors
            d == ret.value
        IN  /\ Len(d.elevation) = n
            /\ Len(d.azimuth) = n
            /\ Len(d.fraction) = n
            /\ \A i \in 1..n : /\ n * d.fraction[i] <= FxOne
                               /\ n * (d.fraction[i] + 1) > FxOne
            /\ Abs(SumSeq(d.fraction, n) - FxOne) <= n

C7_Witness ==
    /\ Done("sky_discretisation")
    /\ args.turtle_sectors = 16
    /\ Len(ret.value.fraction) = 16
    /\ ret.value.fraction[16] = 625

\* C8: sun_sky_sources raises ValueError for every model name other than
\* 'blended' and 'sun_soc', whatever the irradiance data.
C8_UnknownModelRaises ==
    (Done("sun_sky_sources") /\ args.model \notin {"blended", "sun_soc"})
    => (ret.kind = "raise" /\ ret.exc = "ValueError")

\* C9: with model='blended' and a sun fraction greater than 0, sun_sky_sources
\* returns normally, its sky on the 46 turtle directions.
C9_BlendedReturns ==
    (Done("sun_sky_sources") /\ args.model = "blended" /\ sun_fraction(args.sky_irr) > 0)
    => /\ ret.kind = "return"
       /\ Len(ret.value.sky.irradiance) = 46

\* the sky types each function knows
KnownTypes(f) ==
    IF f = "sky_luminance"
    THEN {"soc", "uoc", "sun_soc", "clear_sky", "blended", "all_weather"}
    ELSE {"soc", "uoc", "clear_sky"}

CalledType == IF fn = "cie_relative_luminance" THEN args.type ELSE args.sky_type

\* C10: an unknown sky_type string always gives a ValueError and never a
\* result, in cie_relative_luminance, in sky_sources and in sky_luminance, for
\* any sky_irradiance table, one with zero rows included.
C10_UnknownSkyTypeRaises ==
    (pc = "done" /\ fn \in {"cie_relative_luminance", "sky_sources", "sky_luminance"}
        /\ CalledType \notin KnownTypes(fn))
    => (ret.kind = "raise" /\ ret.exc = "ValueError")

C10_Witness ==
    /\ Done("sky_luminance")
    /\ args.sky_type = "foo"
    /\ ~args.sky_irradiance.none
    /\ Len(args.sky_irradiance.rows) = 0
    /\ ret.kind = "raise"
    /\ ret.exc = "ValueError"

\* the scale tokens the documentation of sky_luminance lists
DocumentedScales == {"ghi", "ppfd", "global", "par"}

\* C11: a scale token that is neither None nor documented raises the
\* 'undefined scale' ValueError (line 323) when the call gets as far as the
\* scaling; a scale other than None with sky_irradiance=None on a soc/uoc sky
\* raises the 'Cannot compute scaling' ValueError (line 313); the tokens
\* 'ppfd', 'global' and 'par' scale by mean(ppfd), sum(ghi)*3600/1e6 and
\* sum(ppfd)*3600/1e6.
C11_ScaleTokens ==
    Done("sky_luminance") =>
        /\ (args.scale \notin DocumentedScales \cup {"None"} /\ LoopCompleted
                /\ UnitResult.kind = "return")
           => ret = ValueError(323)
        /\ (args.scale # "None" /\ args.sky_irradiance.none
                /\ args.sky_type \in {"soc", "uoc"})
           => ret = ValueError(313)
        /\ (args.scale \in {"ppfd", "global", "par"} /\ LoopCompleted
                /\ UnitResult.kind = "return")
           => /\ ret.kind = "return"
              /\ ret.value.sky =
                    Scaled(UnitResult.value.sky, Len(grid),
                           CASE args.scale = "ppfd" -> ColMean(args.sky_irradiance, "ppfd")
                             [] args.scale = "global" ->
                                  FxMul(ColSum(args.sky_irradiance, "ghi"), 36)
                             [] args.scale = "par" ->
                                  FxMul(ColSum(args.sky_irradiance, "ppfd"), 36))

\* a finished sky_luminance call of a sky type other than soc/uoc without a table
NoIrradianceCall ==
    /\ Done("sky_luminance")
    /\ args.sky_type \notin {"soc", "uoc"}
    /\ args.sky_irradiance.none

\* C12: sky_luminance with a sky type outside {'soc', 'uoc'} and
\* sky_irradiance=None raises the ValueError of line 246 with the grid not yet
\* unpacked, the sun list not yet created and no sky or soc field computed.
C12_RaisesBeforeGrid ==
    NoIrradianceCall =>
        /\ ret = ValueError(246)
        /\ grid = Unset
        /\ sky = Unset
        /\ soc = Unset
        /\ row_i = 0

\* such a call of the blended sky has finished with an exception
C12_Witness ==
    /\ NoIrradianceCall
    /\ args.sky_type = "blended"
    /\ args.scale = "ppfd"
    /\ ret.kind = "raise"

\* the sums of the columns of the table of a finished sun_fraction call
FractionSum(name) == ColSum(args.sky, name)

\* every hour of the table satisfies the test
EveryHour(Test(_)) == \A i \in 1..Len(args.sky.rows) : Test(args.sky.rows[i])

DiffuseWithinGlobal(row) == 0 <= row.dhi /\ row.dhi <= row.ghi

AllDiffuse(row) == row.ghi = row.dhi

NoDiffuse(row) == row.dhi = 0

\* sum(ghi - dhi) / sum(ghi) computed from the column sums
BeamShare == FxDiv(FractionSum("ghi") - FractionSum("dhi"), FractionSum("ghi"))

\* C13 as stated: 0 whenever dni sums to 0; 0 when ghi = dhi on every row; 1
\* when dhi = 0 on every row and ghi sums to a positive value; and
\* sum(ghi - dhi)/sum(ghi), a value in [0, 1], for every table with
\* 0 <= dhi <= ghi per row and sum(ghi) > 0.
C13_SunFractionAsStated ==
    Done("sun_fraction") =>
        /\ FractionSum("dni") = 0 => ret.value = 0
        /\ EveryHour(AllDiffuse) => ret.value = 0
        /\ (EveryHour(NoDiffuse) /\ FractionSum("ghi") > 0) => ret.value = FxOne
        /\ (EveryHour(DiffuseWithinGlobal) /\ FractionSum("ghi") > 0)
           => /\ ret.value = BeamShare
              /\ 0 <= ret.value /\ ret.value <= FxOne

\* C13 amended: 0 whenever dni sums to 0; when dni does not sum to 0 and ghi
\* sums to a positive value, sun_fraction is sum(ghi - dhi)/sum(ghi), which is
\* 0 when ghi = dhi on every row, 1 when dhi = 0 on every row, and lies in
\* [0, 1] when 0 <= dhi <= ghi per row; when dni does not sum to 0 but ghi
\* sums to 0 the division by zero gives nan or an infinity.
C13_SunFraction ==
    Done("sun_fraction") =>
        /\ ret.kind = "return"
        /\ FractionSum("dni") = 0 => ret.value = 0
        /\ (FractionSum("dni") # 0 /\ FractionSum("ghi") > 0)
           => /\ ret.value = BeamShare
              /\ EveryHour(AllDiffuse) => ret.value = 0
              /\ EveryHour(NoDiffuse) => ret.value = FxOne
              /\ EveryHour(DiffuseWithinGlobal)
                 => (0 <= ret.value /\ ret.value <= FxOne)
        /\ (FractionSum("dni") # 0 /\ FractionSum("ghi") = 0) => IsNaN(ret.value)

\* a table with a beam on one hour only, diffuse within global, whose sun
\* fraction lies strictly between 0 and 1
C13_Witness ==
    /\ Done("sun_fraction")
    /\ Len(args.sky.rows) = 2
    /\ FractionSum("dni") # 0
    /\ args.sky.rows[1].dni = 0
    /\ EveryHour(DiffuseWithinGlobal)
    /\ ret.value > 0 /\ ret.value < FxOne

\* a finished sky_luminance call of a known time-varying sky type whose loop
\* has run over every row of the table
LoopedCall ==
    /\ Done("sky_luminance")
    /\ args.sky_type \in {"clear_sky", "sun_soc", "blended", "all_weather"}
    /\ LoopCompleted

\* total horizontal irradiance of the returned sun sources
SunHi(s) == SumSeq([i \in 1..Len(s[3]) |-> horizontal_irradiance(s[3][i], s[1][i])], Len(s[3]))

\* C14: with sun_in_sky=False and scale=None on a sky type other than soc/uoc,
\* the call returns, the sky field integrates to sum(dhi)/sum(ghi) on the
\* grid and the sun luminances have total horizontal irradiance
\* 1 - sum(dhi)/sum(ghi) (up to rounding), for every irradiance table, one on
\* which no timestep emits a sun source included.
C14_SunSkySplit ==
    (LoopedCall /\ ~args.sun_in_sky /\ args.scale = "None")
    => /\ ret.kind = "return"
       /\ Abs(sky_hi(grid, ret.value.sky) - f_sky(args.sky_irradiance)) <= 50
       /\ Abs(SunHi(ret.value.sun) - (FxOne - f_sky(args.sky_irradiance))) <= 50

\* a step of the time loop that appends a sun source with sun_in_sky=True,
\* that is a timestep on which the sun is folded into the sky
FoldingStep ==
    /\ pc = "loop"
    /\ fn = "sky_luminance"
    /\ row_i <= Len(args.sky_irradiance.rows)
    /\ args.sun_in_sky
    /\ Len(sun') = Len(sun) + 1

\* the field a step of the loop adds to sky
AddedHi == sky_hi(grid, sky') - sky_hi(grid, sky)

\* C15: with sun_in_sky=True, on every timestep on which the sun is folded
\* into the sky the iteration completes and the field added to sky integrates
\* on the grid to the timestep's dhi plus the sun's ghi - dhi, that is to ghi
\* (within a thousandth), for every grid and sun position, one with no grid
\* cell within sun_disc of the sun included.
C15_FoldingConservesFlux ==
    [][FoldingStep =>
        /\ pc' = "loop"
        /\ Abs(AddedHi - args.sky_irradiance.rows[row_i].ghi)
             <= args.sky_irradiance.rows[row_i].ghi \div 1000]_vars

\* the turtle cardinality chosen for a request of k sectors: the smallest of
\* 1, 6, 16, 46 that is at least k, and 46 for a larger request
ChosenCardinality(k) ==
    IF k > 46 THEN 46 ELSE CHOOSE n \in {1, 6, 16, 46} :
                              n >= k /\ \A m \in {1, 6, 16, 46} : m >= k => n <= m

\* C16: sky_sources with sky_type 'soc' or 'uoc', a numeric irradiance and
\* turtle_sectors=k returns elevation, azimuth and irradiance arrays of the
\* length n chosen for k, the irradiances summing to the irradiance asked for
\* (within n units of the resolution, relative to the irradiance).
C16_OvercastSources ==
    (Done("sky_sources") /\ args.sky_type \in {"soc", "uoc"} /\ ~args.irradiance.none) =>
        LET n == ChosenCardinality(args.turtle_sectors)
        IN  /\ ret.kind = "return"
            /\ Len(ret.value.elevation) = n
            /\ Len(ret.value.azimuth) = n
            /\ Len(ret.value.irradiance) = n
            /\ Abs(SumSeq(ret.value.irradiance, n) - args.irradiance.v)
                 <= (n * args.irradiance.v) \div FxOne

\* 16 directions for k = 16 and irradiance = 1, every source lit
C16_Witness ==
    /\ Done("sky_sources")
    /\ args.sky_type = "soc"
    /\ args.turtle_sectors = 16
    /\ args.irradiance = Some(FxOne)
    /\ ret.kind = "return"
    /\ Len(ret.value.irradiance) = 16
    /\ \A i \in 1..16 : ret.value.irradiance[i] > 0

\* the sky accumulated over the first k rows of the table, computed from the
\* arguments of the call alone: the grid as received and the soc field as
\* first computed
RECURSIVE ReplaySky(_)
ReplaySky(k) ==
    IF k = 0 THEN Rep(0, Len(args.grid))
    ELSE accumulate(args.grid, ReplaySky(k - 1),
                    loop_body_of(args.grid, args.sky_type, args.sky_irradiance.rows[k],
                                 soc_field_of(args.grid, args.sky_type), args.sun_disc,
                                 args.sun_in_sky).lum)

\* a sky_luminance call that has passed its argument check on a time-varying
\* sky type
InTimeLoop ==
    /\ fn = "sky_luminance"
    /\ args.sky_type \notin {"soc", "uoc"}
    /\ grid # Unset

\* C17: during and after the time loop of sky_luminance, with or without sun
\* folding, the grid is the grid received, the soc field is the one computed
\* before the loop, and the accumulated sky is the one the arguments alone
\* determine, so that two calls with the same arguments give equal results.
C17_GridAndSocUntouched ==
    /\ (fn = "sky_luminance" /\ grid # Unset) => grid = args.grid
    /\ InTimeLoop =>
        /\ soc = soc_field_of(args.grid, args.sky_type)
        /\ sky = ReplaySky(row_i - 1)
    /\ (InTimeLoop /\ pc = "done" /\ LoopCompleted) =>
        ret = sky_luminance_result(args.grid, args.sky_irradiance, args.scale,
                                   args.sun_in_sky, sun, ReplaySky(row_i - 1))

\* two timesteps of the sun_soc sky with the sun folded in on both, the call
\* returning a result
C17_Witness ==
    /\ Done("sky_luminance")
    /\ args.sky_type = "sun_soc"
    /\ args.sun_in_sky
    /\ row_i = 3
    /\ Len(sun) = 2
    /\ ret.kind = "return"

\* the row a step of the time loop handles
ThisRow == args.sky_irradiance.rows[row_i]

LoopTypes == {"clear_sky", "sun_soc", "blended", "all_weather"}

\* a step of the time loop on a known sky type
LoopStep ==
    /\ pc = "loop"
    /\ fn = "sky_luminance"
    /\ row_i <= Len(args.sky_irradiance.rows)
    /\ args.sky_type \in LoopTypes

\* the sky luminance of a row rescaled to its dhi, tabulated
RescaledSkyOf ==
    [g \in Grids, ty \in LoopTypes, row \in RowSet |->
        rescale_dhi(g, row_luminance(g, ty, row, soc_field_of(g, ty)).value, row)]

\* the sum of that luminance over the cells within sun_disc of the sun
BehindSunOf ==
    [g \in Grids, ty \in LoopTypes, row \in RowSet, disc \in SunDiscs |->
        SumOver(RescaledSkyOf[g, ty, row],
                {c \in Cells(g) : ksi_grid(g, row.zenith, row.azimuth)[c] <= disc})]

RescaledSky(row) == RescaledSkyOf[args.grid, args.sky_type, row]

BehindSun(row) == BehindSunOf[args.grid, args.sky_type, row, args.sun_disc]

SunSource(row) == <<9000 - row.zenith, row.azimuth, row.dni>>

\* the sun sources of the first k rows, in the order of the rows
RECURSIVE SunsOf(_)
SunsOf(k) ==
    IF k = 0 THEN <<>>
    ELSE IF args.sky_irradiance.rows[k].dni > BehindSun(args.sky_irradiance.rows[k])
         THEN Append(SunsOf(k - 1), SunSource(args.sky_irradiance.rows[k]))
         ELSE SunsOf(k - 1)

\* a step of the loop appends the sun source of its row if and only if the
\* sun is strictly brighter than the sky behind it, and otherwise adds the
\* rescaled sky, unfolded, to the sky
AppendsIffBrighter ==
    LoopStep =>
        /\ ThisRow.dni > BehindSun(ThisRow) => sun' = Append(sun, SunSource(ThisRow))
        /\ ~(ThisRow.dni > BehindSun(ThisRow))
           => /\ sun' = sun
              /\ pc' = "loop"
              /\ sky' = accumulate(grid, sky, RescaledSky(ThisRow))

\* the sun list holds the sources of the rows handled so far that were
\* brighter than the sky, one per row at most, in the order of the rows
SunListInOrder ==
    (fn = "sky_luminance" /\ pc \in {"loop", "finish"} /\ args.sky_type \in LoopTypes)
    => /\ sun = SunsOf(row_i - 1)
       /\ Len(sun) <= row_i - 1

\* C18: in the time loop of sky_luminance a sun source (90 - zenith, azimuth,
\* dni) is appended for a timestep if and only if its dni is strictly greater
\* than the sum of the dhi-rescaled sky luminance over the grid cells within
\* sun_disc of the sun; the sun list holds at most one entry per timestep, in
\* timestep order; a timestep that appended no sun source adds its sky
\* unfolded.
C18_SunAppendedIffBrighter == [][AppendsIffBrighter]_vars /\ []SunListInOrder

\* a loop over two rows, the first with a sun exactly as bright as the sky
\* behind it and not appended, the second appended
C18_Witness ==
    /\ fn = "sky_luminance"
    /\ pc = "finish"
    /\ args.sky_type = "sun_soc"
    /\ Len(args.sky_irradiance.rows) = 2
    /\ args.sky_irradiance.rows[1].dni = BehindSun(args.sky_irradiance.rows[1])
    /\ args.sky_irradiance.rows[1].dni > 0
    /\ sun = <<SunSource(args.sky_irradiance.rows[2])>>

\* the sun fraction of the table of a sun_sky_sources call
CalledFSun == sun_fraction(args.sky_irr)

\* total of an array of irradiances
Total(a) == SumSeq(a, Len(a))

\* C19: in sun_sky_sources, when the sun fraction is 0 the sky returned is the
\* soc source set of total irradiance 1 and every sun irradiance is 0; with
\* model='sun_soc' the sun irradiances sum to f_sun and the sky irradiances to
\* 1 - f_sun, so that sun plus sky sums to 1 (within two units of the
\* resolution per source, the rounding of its normalisation and scaling); and
\* the branch of the second 'elif f_sun == 0' is never taken.
C19_SunSocSplit ==
    Done("sun_sky_sources") =>
        /\ sun_sky_branch(args.model, CalledFSun) # 322
        /\ CalledFSun = 0
           => /\ ret.kind = "return"
              /\ ret.value.sky = sky_sources("soc", Some(FxOne), 46).value
              /\ Abs(Total(ret.value.sky.irradiance) - FxOne) <= 2 * 46
              /\ \A i \in 1..Len(ret.value.sun.irradiance) : ret.value.sun.irradiance[i] = 0
        /\ args.model = "sun_soc"
           => /\ ret.kind = "return"
              /\ Len(ret.value.sky.irradiance) = 46
              /\ Abs(Total(ret.value.sun.irradiance) - CalledFSun)
                   <= 2 * Len(ret.value.sun.irradiance)
              /\ Abs(Total(ret.value.sky.irradiance) - (FxOne - CalledFSun)) <= 2 * 46
              /\ Abs(Total(ret.value.sun.irradiance) + Total(ret.value.sky.irradiance)
                     - FxOne) <= 2 * (46 + Len(ret.value.sun.irradiance))

\* a sun_soc call on a table with a beam, sun and sky both lit
C19_Witness ==
    /\ Done("sun_sky_sources")
    /\ args.model = "sun_soc"
    /\ CalledFSun > 0
    /\ CalledFSun < FxOne
    /\ ret.kind = "return"
    /\ Total(ret.value.sun.irradiance) > 0
    /\ Total(ret.value.sky.irradiance) > 0

\* a call on an overcast table, sun fraction 0, with the blended model
C19_WitnessNoSun ==
    /\ Done("sun_sky_sources")
    /\ args.model = "blended"
    /\ CalledFSun = 0
    /\ ret.kind = "return"

====
